---- MODULE Spec2Model ----
(***************************************************************************)
(* The concurrent crawl engine of website-scraper (src/src/main.py):       *)
(* the asyncio worker pool, the frontier queue to_visit, the visited set   *)
(* and the coordinator run().  asyncio tasks are cooperative: a task runs  *)
(* without interruption from one suspending await to the next, so every    *)
(* action below is the code between two suspension points of one task.     *)
(***************************************************************************)
EXTENDS Integers, Sequences, FiniteSets, Bags, TLC

\* ------------------------------------------------------------------ bounds
MaxWorkers == 2      \* largest --concurrency value explored
MaxAnchors == 2      \* most <a href> tags on the page /a

Workers == 1..MaxWorkers

\* -------------------------------------------------------------------- URLs
\* A URL string is modelled by its urlparse() result.  A path is the
\* sequence of its "/" separators and segment names: "/a" is <<"/", "a">>,
\* the relative reference "b" is <<"b">>, the empty path is <<>>.
Url(s, n, p, f) == [scheme |-> s, netloc |-> n, path |-> p, fragment |-> f]

\* An href attribute value: the same four components, and valid = FALSE for
\* a value on which urllib raises ValueError (such as "http://[bad").
HrefOf(v, s, n, p, f) ==
    [valid |-> v, scheme |-> s, netloc |-> n, path |-> p, fragment |-> f]

PathA == <<"/", "a">>
PathB == <<"/", "b">>

HrefRelB   == HrefOf(TRUE, "", "", <<"b">>, "")                  \* href="b"
HrefAbsA   == HrefOf(TRUE, "https", "example.com", PathA, "s2")  \* href="https://example.com/a#s2"
HrefFrag   == HrefOf(TRUE, "", "", <<>>, "s2")                   \* href="#s2"
HrefExt    == HrefOf(TRUE, "https", "other.com", <<"/", "x">>, "") \* href="https://other.com/x"
HrefMailto == HrefOf(TRUE, "mailto", "", <<"x">>, "")            \* href="mailto:x"
HrefBad    == HrefOf(FALSE, "http", "[bad", <<>>, "")            \* href="http://[bad"

\* the hrefs tried on the page /a and on the page /b
HrefsA == {HrefRelB, HrefFrag, HrefExt, HrefBad}
HrefsB == {HrefAbsA, HrefExt, HrefMailto}

\* The seed URLs tried: with and without a fragment.
SeedUrls == {Url("https", "example.com", PathA, ""),
             Url("https", "example.com", PathA, "s1")}

\* The --formats lists tried (argparse: nargs='+', choices markdown|pdf|html).
FormatLists == {<<"markdown">>, <<"pdf", "markdown">>}

\* Anchor lists of at most n hrefs
SeqsUpTo(S, n) == UNION {[1..k -> S] : k \in 0..n}

\* The sites tried: the anchors of /a and of /b, in document order
\* (/b gets anchors only where /a links to it)
Sites == {s \in [a : SeqsUpTo(HrefsA, MaxAnchors), b : SeqsUpTo(HrefsB, 1)] :
            (\A i \in 1..Len(s.a) : s.a[i] # HrefRelB) => s.b = <<>>}

\* ---------------------------------------------------------- pure functions
\* urllib.parse.uses_relative / uses_netloc, restricted to the schemes used
uses_relative == {"", "http", "https", "ftp", "file"}
uses_netloc   == {"", "http", "https", "ftp", "file"}

\* WebsiteScraper.get_domain
get_domain(url) == url.netloc

\* the directory part of a base path: everything up to the last "/"
RECURSIVE DirOf(_)
DirOf(p) ==
    IF p = <<>> THEN <<>>
    ELSE IF p[Len(p)] = "/" THEN p
    ELSE DirOf(SubSeq(p, 1, Len(p) - 1))

\* urljoin(base, href) for a valid href (RFC 3986 reference resolution as
\* urllib does it, without dot segments, params and query)
urljoin(base, h) ==
    LET scheme == IF h.scheme = "" THEN base.scheme ELSE h.scheme IN
    IF scheme # base.scheme \/ scheme \notin uses_relative
    THEN Url(h.scheme, h.netloc, h.path, h.fragment)
    ELSE IF scheme \in uses_netloc /\ h.netloc # ""
    THEN Url(scheme, h.netloc, h.path, h.fragment)
    ELSE IF h.path = <<>>
    THEN Url(scheme, base.netloc, base.path, h.fragment)
    ELSE IF h.path[1] = "/"
    THEN Url(scheme, base.netloc, h.path, h.fragment)
    ELSE Url(scheme, base.netloc, DirOf(base.path) \o h.path, h.fragment)

\* urlparse(joined_href)._replace(fragment='').geturl()
clean_href(base, h) == [urljoin(base, h) EXCEPT !.fragment = ""]

\* mutant: the comparison with the domain is lost (`or domain` is truthy)
is_internal_link_any(link, dom) == link.netloc = "" \/ dom = dom

\* WebsiteScraper.is_internal_link
is_internal_link(link, dom) == link.netloc = "" \/ link.netloc = dom

\* mutant: the link loop is left after its first put
discovered_first(url, anchors, dom, vis) ==
    LET ok == {i \in 1..Len(anchors) :
                  /\ \A j \in 1..i : anchors[j].valid
                  /\ is_internal_link(clean_href(url, anchors[i]), dom)
                  /\ clean_href(url, anchors[i]) \notin vis}
    IN IF ok = {} THEN <<>>
       ELSE <<clean_href(url, anchors[CHOOSE i \in ok : \A j \in ok : i <= j])>>

\* mutant: the loop does not look at visited before it puts
discovered_unfiltered(url, anchors, dom, vis) ==
    LET ok == {i \in 1..Len(anchors) :
                  /\ \A j \in 1..i : anchors[j].valid
                  /\ is_internal_link(clean_href(url, anchors[i]), dom)}
        RECURSIVE from(_)
        from(i) == IF i > Len(anchors) THEN <<>>
                   ELSE IF i \in ok THEN <<clean_href(url, anchors[i])>> \o from(i + 1)
                   ELSE from(i + 1)
    IN from(1)

\* The link loop of crawl_impl: the URLs put on to_visit, in order, for the
\* page fetched as url with these anchors.  urljoin raising on an anchor
\* leaves the loop (the try block of crawl_impl encloses the whole loop).
RECURSIVE discovered(_, _, _, _)
discovered(url, anchors, dom, vis) ==
    IF anchors = <<>> THEN <<>>
    ELSE IF ~Head(anchors).valid THEN <<>>
    ELSE LET c == clean_href(url, Head(anchors))
             rest == discovered(url, Tail(anchors), dom, vis)
         IN IF is_internal_link(c, dom) /\ c \notin vis THEN <<c>> \o rest ELSE rest

\* TRUE iff the link loop is left by an exception
loop_raises(anchors) == \E i \in 1..Len(anchors) : ~anchors[i].valid

Range(s) == {s[i] : i \in 1..Len(s)}

RECURSIVE SeqToBag(_)
SeqToBag(s) == IF s = <<>> THEN EmptyBag ELSE SetToBag({Head(s)}) (+) SeqToBag(Tail(s))

\* ------------------------------------------------------------------- state
VARIABLES
    start_url,    \* self.start_url
    domain,       \* self.domain
    concurrency,  \* self.concurrency
    formats,      \* self.formats
    site,         \* the web site: the anchors of each of its pages
    visited,      \* self.visited
    to_visit,     \* self.to_visit: the queue's items, head first
    unfinished,   \* self.to_visit._unfinished_tasks
    finished,     \* self.to_visit._finished (the event join() waits on)
    semaphore,    \* self.semaphore: free permits
    phase,        \* where run() is
    created,      \* number of worker tasks created by run()
    cancel,       \* workers on which run() called cancel()
    pc,           \* where each worker task is
    cur,          \* the url each worker holds
    idx,          \* formats already handled by save_content, per worker
    raised,       \* per worker: formats whose saver raised for cur so far
    gotos,        \* history: bag of URLs passed to page.goto
    puts,         \* history: bag of URLs passed to to_visit.put
    gets,         \* history: number of to_visit.get() that returned
    dones,        \* history: number of to_visit.task_done() calls
    failed,       \* history: URLs whose fetch raised
    saved,        \* history: <<url, format>> for every saver invocation
    extracted     \* history: URLs whose link loop was run

inputs  == <<start_url, domain, concurrency, formats, site>>
shared  == <<visited, to_visit, unfinished, finished, semaphore>>
coord   == <<phase, created, cancel>>
wstate  == <<pc, cur, idx, raised>>
history == <<gotos, puts, gets, dones, failed, saved, extracted>>
vars    == <<inputs, shared, coord, wstate, history>>

NoUrl == Url("", "", <<>>, "")

\* the anchors of the page the server returns for url (it ignores fragments)
page_anchors(s, dom, url) ==
    IF url.netloc # dom THEN <<>>
    ELSE IF url.path = PathA THEN s.a
    ELSE IF url.path = PathB THEN s.b
    ELSE <<>>

anchors_of(url) == page_anchors(site, domain, url)


\* WebsiteScraper.__init__ and the command line
Init ==
    /\ start_url \in SeedUrls
    /\ domain = get_domain(start_url)
    /\ concurrency \in 0..MaxWorkers
    /\ formats \in FormatLists
    /\ site \in Sites
    /\ visited = {}
    /\ to_visit = <<>>
    /\ unfinished = 0
    /\ finished = TRUE
    /\ semaphore = concurrency
    /\ phase = "Idle"
    /\ created = 0
    /\ cancel = {}
    /\ pc = [w \in Workers |-> "new"]
    /\ cur = [w \in Workers |-> NoUrl]
    /\ idx = [w \in Workers |-> 0]
    /\ raised = [w \in Workers |-> {}]
    /\ gotos = EmptyBag
    /\ puts = EmptyBag
    /\ gets = 0
    /\ dones = 0
    /\ failed = {}
    /\ saved = {}
    /\ extracted = {}

\* ------------------------------------------------------- shared operations
\* mutant: the gate lets every url through
gate_open_always(url, vis) == TRUE

\* crawl_impl's gate: `if url in self.visited: return`
gate_open(url, vis) == url \notin vis

\* mutant: the counter is not decremented
task_done_lost(u) == u

\* asyncio.Queue.task_done on a counter value u: the new counter
task_done(u) == u - 1

\* mutant: no try/except in the loop, the saver's exception leaves
\* save_content and is caught by crawl_impl
after_save_propagates(raises, i, n) ==
    IF raises THEN "abort" ELSE IF i < n THEN "next_format" ELSE "extract"

\* save_content after the saver of format number i of n returned or raised:
\* the exception is caught inside the loop, so the loop goes on
after_save(raises, i, n) == IF i < n THEN "next_format" ELSE "extract"

\* the worker w leaves crawl() and calls task_done(), after putting the URLs
\* new on the queue q
FinishItem(w, q, new) ==
    LET u == unfinished + Len(new) IN
    /\ to_visit' = q \o new
    /\ puts' = puts (+) SeqToBag(new)
    /\ IF u <= 0
       THEN \* task_done raises ValueError: the worker task ends
            /\ pc' = [pc EXCEPT ![w] = "finished"]
            /\ UNCHANGED <<unfinished, finished, dones>>
       ELSE /\ pc' = [pc EXCEPT ![w] = "get"]
            /\ unfinished' = task_done(u)
            /\ finished' = IF task_done(u) = 0 THEN TRUE
                           ELSE IF new # <<>> THEN FALSE ELSE finished
            /\ dones' = dones + 1

\* ------------------------------------------------------ coordinator: run()
\* setup_output_directory, browser launch, new_context (lines 201-205)
Launch ==
    /\ phase = "Idle"
    /\ phase' = "Seeding"
    /\ UNCHANGED <<inputs, shared, created, cancel, wstate, history>>

\* mutant: the loop creates one worker too many
SpawnOneMore ==
    /\ phase = "Seeding"
    /\ created < concurrency + 1
    /\ created + 1 \in Workers
    /\ created' = created + 1
    /\ pc' = [pc EXCEPT ![created + 1] = "get"]
    /\ UNCHANGED <<inputs, shared, phase, cancel, cur, idx, raised, history>>

\* one round of the loop of lines 209-212: a worker task is created; it
\* runs up to its first to_visit.get()
Spawn ==
    /\ phase = "Seeding"
    /\ created < concurrency
    /\ created' = created + 1
    /\ pc' = [pc EXCEPT ![created + 1] = "get"]
    /\ UNCHANGED <<inputs, shared, phase, cancel, cur, idx, raised, history>>

\* lines 215-218: put(start_url) on the unbounded queue does not suspend,
\* so run() goes straight on to join()
PutSeed ==
    /\ phase = "Seeding"
    /\ created = concurrency
    /\ to_visit' = Append(to_visit, start_url)
    /\ unfinished' = unfinished + 1
    /\ finished' = FALSE
    /\ puts' = puts (+) SetToBag({start_url})
    /\ phase' = "Draining"
    /\ UNCHANGED <<inputs, visited, semaphore, created, cancel, wstate,
                   gotos, gets, dones, failed, saved, extracted>>

\* mutant: run() waits for an empty queue instead of join()
JoinReturnsOnEmptyQueue ==
    /\ phase = "Draining"
    /\ to_visit = <<>>
    /\ phase' = "Completing"
    /\ UNCHANGED <<inputs, shared, created, cancel, wstate, history>>

\* line 218: join() returns once the _finished event is set
JoinReturns ==
    /\ phase = "Draining"
    /\ finished
    /\ phase' = "Completing"
    /\ UNCHANGED <<inputs, shared, created, cancel, wstate, history>>

\* mutant: the first worker is not cancelled
CancelWorkersButFirst ==
    /\ phase = "Completing"
    /\ cancel' = 2..created
    /\ phase' = "ShuttingDown"
    /\ UNCHANGED <<inputs, shared, created, wstate, history>>

\* lines 221-225: cancel() on every worker, then gather() is awaited
CancelWorkers ==
    /\ phase = "Completing"
    /\ cancel' = 1..created
    /\ phase' = "ShuttingDown"
    /\ UNCHANGED <<inputs, shared, created, wstate, history>>

\* mutant: run() does not wait for the cancelled workers
GatherReturnsEarly ==
    /\ phase = "ShuttingDown"
    /\ phase' = "Closing"
    /\ UNCHANGED <<inputs, shared, created, cancel, wstate, history>>

\* line 225: gather() returns when every worker task has ended
GatherReturns ==
    /\ phase = "ShuttingDown"
    /\ \A w \in 1..created : pc[w] = "finished"
    /\ phase' = "Closing"
    /\ UNCHANGED <<inputs, shared, created, cancel, wstate, history>>

\* lines 227-229: browser.close() returns
CloseBrowser ==
    /\ phase = "Closing"
    /\ phase' = "Done"
    /\ UNCHANGED <<inputs, shared, created, cancel, wstate, history>>

\* ---------------------------------------------------------------- worker
InCrawl == {"acquire", "fetch", "save"}

\* mutant: a skipped url goes back to get() without task_done()
SkipWithoutDone(w, q) ==
    /\ to_visit' = q
    /\ pc' = [pc EXCEPT ![w] = "get"]
    /\ UNCHANGED <<visited, semaphore, gotos, puts, unfinished, finished, dones>>

\* lines 134-135 and 176: the url is in visited; crawl_impl returns and the
\* item is marked done
Skip(w, q) ==
    /\ FinishItem(w, q, <<>>)
    /\ UNCHANGED <<visited, semaphore, gotos>>

\* lines 136-139: the url is claimed and page.goto is called
\* mutant: the claim forgets visited.add
ClaimWithoutAdd(w, url, q) ==
    /\ visited' = visited
    /\ gotos' = gotos (+) SetToBag({url})
    /\ semaphore' = semaphore - 1
    /\ pc' = [pc EXCEPT ![w] = "fetch"]
    /\ to_visit' = q
    /\ UNCHANGED <<unfinished, finished, puts, dones>>

\* lines 136-139 and 163: the URL is claimed, the semaphore is held and
\* page.goto is called
Claim(w, url, q) ==
    /\ visited' = visited \cup {url}
    /\ gotos' = gotos (+) SetToBag({url})
    /\ semaphore' = semaphore - 1
    /\ pc' = [pc EXCEPT ![w] = "fetch"]
    /\ to_visit' = q
    /\ UNCHANGED <<unfinished, finished, puts, dones>>

\* lines 174-175, 163, 134-139: get() returns the head of the queue, the
\* semaphore is taken, the gate is passed or not, and page.goto is called.
\* A worker that found no free permit resumes here from "acquire".
Get(w) ==
    /\ w \notin cancel
    /\ IF pc[w] = "get" THEN to_visit # <<>>
       ELSE pc[w] = "acquire" /\ semaphore > 0
    /\ LET fresh == pc[w] = "get"
           url == IF fresh THEN Head(to_visit) ELSE cur[w]
           q == IF fresh THEN Tail(to_visit) ELSE to_visit
       IN
       /\ gets' = IF fresh THEN gets + 1 ELSE gets
       /\ cur' = [cur EXCEPT ![w] = url]
       /\ IF semaphore = 0
          THEN /\ pc' = [pc EXCEPT ![w] = "acquire"]
               /\ to_visit' = q
               /\ UNCHANGED <<visited, unfinished, finished, semaphore,
                              gotos, puts, dones>>
          ELSE IF gate_open(url, visited)
          THEN Claim(w, url, q)
          ELSE Skip(w, q)
    /\ UNCHANGED <<inputs, coord, idx, raised, failed, saved, extracted>>

\* lines 139-142: page.goto, wait_for_load_state and page.content have
\* returned (three awaits that touch no state of the scraper, taken as one
\* step); save_content calls the saver of the first format
FetchReturns(w) ==
    /\ w \notin cancel
    /\ pc[w] = "fetch"
    /\ pc' = [pc EXCEPT ![w] = "save"]
    /\ UNCHANGED <<inputs, shared, coord, cur, idx, raised, history>>

\* mutant: a url whose fetch raised is taken out of visited and put back on
\* the queue for a retry
FetchRaisesRetry(w) ==
    /\ w \notin cancel
    /\ pc[w] = "fetch"
    /\ failed' = failed \cup {cur[w]}
    /\ visited' = visited \ {cur[w]}
    /\ semaphore' = semaphore + 1
    /\ FinishItem(w, to_visit, <<cur[w]>>)
    /\ UNCHANGED <<inputs, coord, cur, idx, raised, gotos, gets, saved, extracted>>

\* lines 139-141, 152-153, 176: one of the three raises; the handler logs,
\* the semaphore is released and the item is marked done
FetchRaises(w) ==
    /\ w \notin cancel
    /\ pc[w] = "fetch"
    /\ failed' = failed \cup {cur[w]}
    /\ semaphore' = semaphore + 1
    /\ FinishItem(w, to_visit, <<>>)
    /\ UNCHANGED <<inputs, visited, coord, cur, idx, raised, gotos, gets,
                   saved, extracted>>

\* lines 104-109 and 144-153, 176: the saver of the next format returns or
\* raises; after the last one the link loop runs and the item is marked done
SaveReturns(w) ==
    /\ w \notin cancel
    /\ pc[w] = "save"
    /\ \E raises \in BOOLEAN :
        LET fmt == formats[idx[w] + 1]
            next == after_save(raises, idx[w] + 1, Len(formats))
        IN
        /\ saved' = saved \cup {<<cur[w], fmt>>}
        /\ IF next = "next_format"
           THEN /\ raised' = [raised EXCEPT ![w] = IF raises THEN @ \cup {fmt} ELSE @]
                /\ idx' = [idx EXCEPT ![w] = @ + 1]
                /\ UNCHANGED <<shared, pc, gotos, puts, gets, dones, failed, extracted>>
           ELSE /\ raised' = [raised EXCEPT ![w] = {}]
                /\ idx' = [idx EXCEPT ![w] = 0]
                /\ semaphore' = semaphore + 1
                /\ IF next = "extract"
                   THEN /\ FinishItem(w, to_visit,
                               discovered(cur[w], anchors_of(cur[w]), domain, visited))
                        /\ extracted' = extracted \cup {cur[w]}
                   ELSE /\ FinishItem(w, to_visit, <<>>)
                        /\ UNCHANGED extracted
                /\ UNCHANGED <<visited, gotos, gets, failed>>
    /\ UNCHANGED <<inputs, coord, cur>>

\* Task.cancel(): CancelledError is thrown into the worker at the await it
\* is suspended on; `except Exception` does not catch it, `async with`
\* releases the semaphore, and the task ends
Cancelled(w) ==
    /\ w \in cancel
    /\ pc[w] # "finished"
    /\ pc' = [pc EXCEPT ![w] = "finished"]
    /\ semaphore' = IF pc[w] \in {"fetch", "save"} THEN semaphore + 1 ELSE semaphore
    /\ UNCHANGED <<inputs, visited, to_visit, unfinished, finished, coord,
                   cur, idx, raised, history>>

Next ==
    \/ Launch
    \/ Spawn
    \/ PutSeed
    \/ JoinReturns
    \/ CancelWorkers
    \/ GatherReturns
    \/ CloseBrowser
    \/ \E w \in Workers : Get(w)
    \/ \E w \in Workers : FetchReturns(w)
    \/ \E w \in Workers : FetchRaises(w)
    \/ \E w \in Workers : SaveReturns(w)
    \/ \E w \in Workers : Cancelled(w)

Spec == Init /\ [][Next]_vars

\* The event loop runs every task that is ready, and every fetch and every
\* saver call returns or raises in the end
Coordinator ==
    Launch \/ Spawn \/ PutSeed \/ JoinReturns \/ CancelWorkers \/ GatherReturns
        \/ CloseBrowser
WorkerStep(w) ==
    Get(w) \/ FetchReturns(w) \/ FetchRaises(w) \/ SaveReturns(w) \/ Cancelled(w)
Fairness == WF_vars(Coordinator) /\ \A w \in Workers : WF_vars(WorkerStep(w))
\* Termination is checked on the same-domain sites under the default --formats
LiveInit == Init /\ formats = <<"markdown">> /\ HrefExt \notin Range(site.a)
LiveSpec == LiveInit /\ [][Next]_vars /\ Fairness

\* ================================================================== claims
IsValid(h) == h.valid

\* the anchors the link loop handles before an anchor makes urljoin raise
RECURSIVE valid_prefix(_)
valid_prefix(anchors) ==
    IF anchors = <<>> \/ ~Head(anchors).valid THEN <<>>
    ELSE <<Head(anchors)>> \o valid_prefix(Tail(anchors))

\* the eligible link targets of the anchors on the page fetched as u
link_targets(dom, u, anchors) ==
    {c \in {clean_href(u, h) : h \in Range(anchors)} : c.netloc = "" \/ c.netloc = dom}

\* the least set that holds S and the link targets of each of its pages whose
\* fetch did not fail; with every = TRUE all well-formed anchors of a page
\* count, otherwise those before the first malformed one
RECURSIVE LinkClosure(_, _, _)
LinkClosure(bad, every, S) ==
    LET T == S \cup UNION {link_targets(domain, u,
                              IF every THEN SelectSeq(anchors_of(u), IsValid)
                              ELSE valid_prefix(anchors_of(u))) : u \in S \ bad}
    IN IF T = S THEN S ELSE LinkClosure(bad, every, T)

Busy(w) == pc[w] \in {"fetch", "save"}
Held == Cardinality({w \in Workers : pc[w] \in InCrawl})
StripFragment(u) == [u EXCEPT !.fragment = ""]

\* C1: every URL is passed to page.goto at most once in a run, and no two
\* workers are ever inside crawl_impl past the gate for the same URL, even
\* when the URL was dequeued by several workers.
C1_AtMostOneClaim ==
    /\ \A u \in BagToSet(gotos) : CopiesIn(u, gotos) = 1
    /\ \A w1, w2 \in Workers :
          (w1 # w2 /\ Busy(w1) /\ Busy(w2)) => cur[w1] # cur[w2]

\* a second worker dequeued the URL a first worker is fetching, and skipped it
C1_Witness ==
    \E w1, w2 \in Workers :
        /\ w1 # w2 /\ Busy(w1) /\ pc[w2] = "get" /\ cur[w2] = cur[w1]
        /\ CopiesIn(cur[w1], gotos) = 1 /\ CopiesIn(cur[w1], puts) >= 2

\* C2: with at least one worker, fair scheduling and fetches that return or
\* raise, run() reaches Done whatever the link graph (cycles included) and
\* whatever fetches and saves fail.
C2_Terminates == (concurrency >= 1) ~> (phase = "Done")

\* Done on the cyclic site /a -> /b -> /a, with a failed fetch on the way
C2_Witness ==
    /\ phase = "Done"
    /\ site.b = <<HrefAbsA>>
    /\ \E u \in extracted : u.path = PathB
    /\ failed # {}

\* C3: when run() is Done and no fetch failed, visited is exactly the set of
\* URLs reachable from the seed over eligible links, each fetched once.
C3_VisitedIsReachable ==
    (phase = "Done" /\ failed = {}) =>
        /\ visited = LinkClosure({}, TRUE, {start_url})
        /\ \A u \in visited : CopiesIn(u, gotos) = 1

\* C4: whenever join() can return or has returned, the queue is empty and no
\* worker holds an item it has not marked done.
C4_NoEarlyCompletion ==
    ((phase = "Draining" /\ finished)
        \/ phase \in {"Completing", "ShuttingDown", "Closing", "Done"}) =>
        /\ to_visit = <<>>
        /\ unfinished = 0
        /\ \A w \in Workers : pc[w] \notin InCrawl

\* join() has returned after a crawl of at least two pages
C4_Witness == phase = "Completing" /\ Cardinality(extracted) >= 2

\* C5: every dequeued item is either still held by the worker processing it
\* or was marked done exactly once; task_done is never called more often than
\* put, and at Done every item put was dequeued and marked done.
C5_DoneOncePerItem ==
    /\ gets = dones + Held
    /\ dones <= BagCardinality(puts)
    /\ unfinished = BagCardinality(puts) - dones
    /\ \A w \in Workers : pc[w] = "finished" => w \in cancel
    /\ phase = "Done" => (gets = BagCardinality(puts) /\ dones = gets)

\* a finished run in which an item was skipped, a fetch failed and a page
\* was processed to the end
C5_Witness ==
    /\ phase = "Done"
    /\ gets > BagCardinality(gotos)
    /\ failed # {}
    /\ extracted # {}
    /\ dones >= 4

\* C6: no URL with a non-empty host other than the crawl domain is ever put
\* on the queue or added to visited.
C6_NoExternal ==
    \A u \in BagToSet(puts) \cup visited \cup Range(to_visit) :
        u.netloc # "" => u.netloc = domain

\* the link loop ran on a page whose first anchor is external
C6_Witness ==
    \E u \in extracted : anchors_of(u) # <<>> /\ anchors_of(u)[1] = HrefExt

\* C7: URLs that differ only in their fragment have one entry in visited and
\* the page is fetched at most once, also when one of them is the seed.
C7_FragmentsCollapse ==
    /\ \A u1, u2 \in visited : StripFragment(u1) = StripFragment(u2) => u1 = u2
    /\ \A u1, u2 \in BagToSet(gotos) :
          StripFragment(u1) = StripFragment(u2) => u1 = u2

\* C8: a saver that raises stops nothing: every page whose fetch succeeded
\* and whose processing ended had the saver of every configured format
\* invoked and its link loop run, a worker whose saver raised is still inside
\* save_content, and no worker task ends before it is cancelled.
C8_SaveIsolated ==
    /\ \A u \in visited \ failed :
          (\A w \in Workers : ~(Busy(w) /\ cur[w] = u)) =>
              /\ \A i \in 1..Len(formats) : <<u, formats[i]>> \in saved
              /\ u \in extracted
    /\ \A w \in Workers : raised[w] # {} => pc[w] = "save"
    /\ \A w \in Workers : pc[w] = "finished" => w \in cancel
    /\ \A w \in Workers :
          pc[w] = "save" => \A i \in 1..idx[w] : <<cur[w], formats[i]>> \in saved

\* the pdf saver raised for a page and the markdown saver is being invoked
\* for it
C8_Witness ==
    \E w \in Workers :
        /\ pc[w] = "save" /\ idx[w] = 1 /\ raised[w] = {"pdf"}
        /\ formats = <<"pdf", "markdown">>

\* C9: once the fetch of u has failed, u stays in visited, is never passed to
\* page.goto or put on the queue again, has no saver invoked and no link
\* loop run; the step on which the fetch fails puts nothing on the queue,
\* marks the item done and leaves the worker at its next get().
C9_FetchFailureIsLocal ==
    [][/\ \A u \in failed :
             /\ u \in visited'
             /\ CopiesIn(u, gotos') = 1
             /\ CopiesIn(u, puts') = CopiesIn(u, puts)
             /\ u \notin extracted'
             /\ \A f \in Range(formats) : <<u, f>> \notin saved'
       /\ failed' # failed =>
             /\ puts' = puts
             /\ dones' = dones + 1
             /\ \E w \in Workers : pc[w] = "fetch" /\ pc'[w] = "get"]_vars

\* the only worker had a fetch fail and is now processing another URL
C9_Witness ==
    /\ concurrency = 1
    /\ failed # {}
    /\ Busy(1)
    /\ cur[1] \notin failed

\* C10: the visited set at Done is a function of the seed, the site and the
\* fetch outcomes alone: it is the least set that holds the seed and the
\* links the loop puts for every page whose fetch succeeded, whatever the
\* number of workers and their interleaving.
C10_Convergence ==
    phase = "Done" => visited = LinkClosure(failed, FALSE, {start_url})

\* a finished run of several workers over three URLs, one fetch failed
C10_Witness ==
    /\ phase = "Done"
    /\ concurrency >= 2
    /\ Cardinality(visited) >= 3
    /\ failed # {}

\* C11: when every well-formed anchor of the seed page points to the seed
\* page itself or to another host, the finished run has put and dequeued one
\* item, fetched once, and visited is {seed}.
C11_SeedOnly ==
    (/\ phase = "Done"
     /\ \A c \in {clean_href(start_url, h) :
                    h \in Range(SelectSeq(anchors_of(start_url), IsValid))} :
           \/ StripFragment(c) = StripFragment(start_url)
           \/ (c.netloc # "" /\ c.netloc # domain)) =>
        /\ BagCardinality(puts) = 1
        /\ gets = 1
        /\ BagCardinality(gotos) = 1
        /\ visited = {start_url}

\* C12: no URL is put on the queue while it is in visited.
C12_NoPutOfVisited ==
    [][\A u \in BagToSet(puts') : CopiesIn(u, puts') > CopiesIn(u, puts) => u \notin visited]_vars

\* the link loop ran on /b, whose anchor leads back to the visited seed, and
\* the seed was not put again
C12_Witness ==
    /\ start_url.fragment = ""
    /\ site.b = <<HrefAbsA>>
    /\ \E u \in extracted : u.path = PathB
    /\ CopiesIn(start_url, puts) = 1

\* the number of anchors handled by the link loops run so far that resolve to u
AnchorsTo(u) ==
    Cardinality({x \in extracted \X (1..MaxAnchors) :
                    LET vp == valid_prefix(anchors_of(x[1]))
                    IN x[2] <= Len(vp) /\ clean_href(x[1], vp[x[2]]) = u})

\* the number of entries of u that are on the queue
EntriesOf(u) == Cardinality({i \in DOMAIN to_visit : to_visit[i] = u})

\* C13 (as stated): a URL that is not yet claimed is on the queue at most
\* once, and is put at most twice in a run (one entry used, one wasted).
C13_AtMostOneWasted ==
    \A u \in BagToSet(puts) :
        /\ u \notin visited => EntriesOf(u) <= 1
        /\ CopiesIn(u, puts) <= 2

\* C13 (amended): u is put at most once per anchor that resolves to it (and
\* once more as the seed) and is fetched at most once; when the run is done
\* every entry was dequeued and every URL put was fetched once, so all other
\* entries of it were skipped.
C13_EntriesBounded ==
    /\ \A u \in BagToSet(puts) :
          /\ CopiesIn(u, puts) <= AnchorsTo(u) + (IF u = start_url THEN 1 ELSE 0)
          /\ CopiesIn(u, gotos) <= 1
    /\ phase = "Done" =>
          /\ gets = BagCardinality(puts)
          /\ \A u \in BagToSet(puts) : CopiesIn(u, gotos) = 1

\* a finished run in which a URL was put more than once and fetched once
C13_Witness ==
    /\ phase = "Done"
    /\ \E u \in BagToSet(puts) : CopiesIn(u, puts) >= 2 /\ CopiesIn(u, gotos) = 1

InFlight == Cardinality({w \in Workers : Busy(w)})

\* C14: at most concurrency fetches are in flight, at most concurrency
\* workers exist, the semaphore counts the free permits, and every item that
\* was dequeued and not yet marked done is held by a worker of its own.
C14_BoundedConcurrency ==
    /\ InFlight <= concurrency
    /\ semaphore = concurrency - InFlight
    /\ Cardinality({w \in Workers : pc[w] # "new"}) <= concurrency
    /\ gets - dones = Held

\* every permit is taken by a worker in a fetch or a save
C14_Witness ==
    /\ concurrency = 2
    /\ InFlight = 2
    /\ semaphore = 0

\* the phases of run() in order; the wait for browser.close() belongs to the
\* shutdown
PhaseOrder == <<"Idle", "Seeding", "Draining", "Completing", "ShuttingDown", "Done">>
Rank(p) == CHOOSE i \in 1..Len(PhaseOrder) : PhaseOrder[i] = (IF p = "Closing" THEN "ShuttingDown" ELSE p)

C15_PhaseInv ==
    /\ Rank(phase) < Rank("Draining") => puts = EmptyBag
    /\ Rank(phase) >= Rank("Draining") => CopiesIn(start_url, puts) = 1
    /\ Rank(phase) >= Rank("Completing") => finished /\ unfinished = 0
    /\ cancel # {} => Rank(phase) >= Rank("ShuttingDown")
    /\ \A w \in Workers : pc[w] = "finished" => w \in cancel
    /\ phase \in {"Closing", "Done"} => \A w \in 1..created : pc[w] = "finished"

\* C15: the phase of run() only moves to the next phase of the order; the
\* seed is put once, when Draining begins; workers are cancelled only after
\* join() has returned; the browser is closed only after every worker has
\* ended.
C15_ForwardOnly ==
    /\ []C15_PhaseInv
    /\ [][Rank(phase') \in {Rank(phase), Rank(phase) + 1}]_vars

\* a run over two pages has gone through every phase
C15_Witness ==
    /\ phase = "Done"
    /\ created = 2
    /\ cancel = 1..created
    /\ Cardinality(visited) >= 2

\* C16: the seed is put and join() awaited only when concurrency is positive.
C16_PositiveConcurrency ==
    Rank(phase) >= Rank("Draining") => concurrency >= 1

\* C17: once the link loop has run on a page, every eligible target of a
\* well-formed anchor of the page, before or after a malformed one, was put
\* on the queue unless it was visited already, and the worker goes on.
C17_BadAnchorSkipped ==
    /\ \A u \in extracted :
          \A c \in link_targets(domain, u, SelectSeq(anchors_of(u), IsValid)) :
              c \in visited \/ c \in BagToSet(puts)
    /\ \A w \in Workers : pc[w] = "finished" => w \in cancel

\* C18: visited never loses a URL, and it gains one only in a step in which
\* a worker claims that URL and goes on to fetch it.
C18_VisitedMonotone ==
    [][/\ visited \subseteq visited'
       /\ visited' # visited =>
             \E w \in Workers :
                /\ pc[w] \in {"get", "acquire"}
                /\ pc'[w] = "fetch"
                /\ cur'[w] \notin visited
                /\ visited' = visited \cup {cur'[w]}
                /\ gotos' = gotos (+) SetToBag({cur'[w]})]_vars

\* a run has ended with a failed fetch and a raised saver behind it, and the
\* failed URL is still visited
C18_Witness ==
    /\ phase = "Done"
    /\ Cardinality(visited) >= 2
    /\ \E u \in failed : u \in visited
    /\ extracted # {}

C19_Quiescent ==
    /\ phase = "Completing" =>
          /\ created = concurrency
          /\ to_visit = <<>>
          /\ \A w \in 1..concurrency : pc[w] = "get"
    /\ \A w \in cancel : pc[w] = "finished" \/ (pc[w] = "get" /\ to_visit = <<>>)

\* C19: when run() cancels the workers, each of the concurrency workers is
\* waiting in get() on the empty queue, and after the cancellation every
\* worker ends, so gather() returns.
C19_CancelOnlyIdle ==
    /\ []C19_Quiescent
    /\ (phase = "ShuttingDown") ~> (phase = "Closing")

\* gather() has returned after two workers were cancelled at the end of a
\* crawl of two pages
C19_Witness ==
    /\ phase = "Closing"
    /\ cancel = {1, 2}
    /\ Cardinality(visited) >= 2

\* C20: every URL put on the queue by the link loop, and every URL in
\* visited, has the crawl domain as its host.
C20_HostIsDomain ==
    \A u \in BagToSet(puts) \cup visited : u.netloc = domain

====
